---- MODULE Spec2Model ----
(***************************************************************************)
(* Model of dactyl-remote-control: the rule matcher (config.rs), the HID   *)
(* report codec and transaction (keyboard.rs), the two focus-watching     *)
(* loops (main.rs, i3.rs, hyprland.rs), main with its exit status and      *)
(* print_keyboard_layer with its two transactions on one handle.           *)
(*                                                                         *)
(* Strings are sequences of Unicode scalar values (integers); bytes are    *)
(* integers 0..255.  Option<T> is a sequence of length at most one:        *)
(* None is <<>> and Some(x) is <<x>>.                                      *)
(***************************************************************************)
EXTENDS Integers, Sequences, FiniteSets, TLC

VARIABLES
    pc,                  \* position of the program in the specification at hand
    entries,             \* WindowWatcherConfig.entries
    window_name,         \* argument of matches_window
    matched,             \* result of matches_window: Option of an index of entries
    file,                \* WindowWatcherConfigFileStructure as declared in the source
    drain_order,         \* order in which HashMap::drain yielded the declared entries
    backend,             \* "hyprland" or "i3"
    last_matched_window, \* watch_hyprland_focus: Option of an index of entries
    previous_ev,         \* subscribe_to_window_focus_events: Option<WindowData>
    status,              \* the watch function: connecting, running, ok, err, panic
    log,                 \* one record per event a watch loop has consumed
    failure_policy,      \* where ChangeLayer failed in a focus step and what the loop did
    command,             \* main: the subcommand and its options
    environment,         \* main: what the logger, the files, the sockets and the device do
    exit_status,         \* main: how the process ended
    device,              \* print_keyboard_layer: layer and jiggler state of the keyboard
    handle,              \* print_keyboard_layer: requests and input reports of the open handle
    calls,               \* print_keyboard_layer: the send_message calls that returned
    stdout,              \* print_keyboard_layer: the lines printed
    operation,           \* argument of send_message
    buffer,              \* report the device answers with
    hid,                 \* what the HID layer did during send_message
    wrote,               \* frame handed to HidDevice::write
    result               \* what send_message / parse_response produced

vars == <<pc, entries, window_name, matched, file, drain_order, backend,
          last_matched_window, previous_ev, status, log, failure_policy,
          command, environment, exit_status, device, handle, calls, stdout,
          operation, buffer, hid, wrote, result>>

matchVars  == <<window_name, matched>>
configVars == <<file, drain_order>>
watchVars  == <<backend, last_matched_window, previous_ev, status, log, failure_policy>>
mainVars   == <<command, environment, exit_status>>
printVars  == <<device, handle, calls, stdout>>
kbdVars    == <<operation, buffer, hid, wrote, result>>

(***************************************************************************)
(* Bounds of the model.                                                    *)
(***************************************************************************)
MaxRules == 2
MaxNameLen == 2
MaxEvents == 3
MaxPayload == 2

None == <<>>
Some(x) == <<x>>
IsSome(o) == Len(o) = 1

RECURSIVE SeqsUpTo(_, _)
SeqsUpTo(S, n) ==
    IF n = 0 THEN {<<>>}
    ELSE LET shorter == SeqsUpTo(S, n - 1)
         IN  shorter \cup {Append(s, x) : s \in {t \in shorter : Len(t) = n - 1}, x \in S}

(***************************************************************************)
(* Strings.                                                                *)
(***************************************************************************)
\* char::is_ascii / u8::is_ascii: the value is within the ASCII range.
is_ascii(c) == c <= 127

\* char lowercasing over ASCII and Latin-1 letters, where it is one to one.
lower_char(c) ==
    IF c >= 65 /\ c <= 90 THEN c + 32
    ELSE IF c >= 192 /\ c <= 222 /\ c # 215 THEN c + 32
    ELSE c

\* str::to_lowercase
to_lowercase(s) == [i \in 1..Len(s) |-> lower_char(s[i])]

\* str::contains(&str): the needle occurs as a contiguous substring.
contains(hay, needle) ==
    \E i \in 0..(Len(hay) - Len(needle)) :
        SubSeq(hay, i + 1, i + Len(needle)) = needle

(***************************************************************************)
(* config.rs: the rule matcher.                                            *)
(***************************************************************************)
\* Iterator::any over the patterns of one field of an entry.
any_contains(patterns, name) ==
    \E k \in 1..Len(patterns) :
        contains(to_lowercase(name), to_lowercase(patterns[k]))

\* The closure without its exclude test.
entry_matches_include_only(entry, name) == any_contains(entry.include, name)

\* The closure handed to find in matches_window.
entry_matches(entry, name) ==
    LET matches_include == any_contains(entry.include, name)
        matches_exclude == any_contains(entry.exclude, name)
    IN  matches_include /\ ~matches_exclude

\* Iterator::find: the first position from i on whose entry satisfies the closure.
RECURSIVE find_from(_, _, _)
find_from(es, name, i) ==
    IF i > Len(es) THEN None
    ELSE IF entry_matches(es[i], name) THEN Some(i)
    ELSE find_from(es, name, i + 1)

\* A lookup that keeps the last satisfying entry instead of the first.
matches_window_last(es, name) ==
    LET hits == {i \in 1..Len(es) : entry_matches(es[i], name)}
    IN  IF hits = {} THEN None ELSE Some(CHOOSE i \in hits : \A j \in hits : j <= i)

\* WindowWatcherConfig::matches_window; the entry is returned by reference,
\* modelled as its index in entries.
matches_window(es, name) == find_from(es, name, 1)

(***************************************************************************)
(* Inputs of the matcher specification.                                    *)
(***************************************************************************)
Foo == <<102, 111, 111>>                    \* "foo"
Baz == <<98, 97, 122>>                      \* "baz"
Bin == <<98, 105, 110>>                     \* "bin"
BazBin == <<98, 97, 122, 32, 98, 105, 110>> \* "baz bin"

NameAlphabet == {97, 66, 233}               \* a B e-acute
MatchNames == {Foo, Baz, Bin, BazBin} \cup SeqsUpTo(NameAlphabet, MaxNameLen)

IncludeLists == {<<>>, <<Foo>>, <<Baz>>, <<<<65, 98>>>>, <<<<98>>, Foo>>}
ExcludeLists == {<<>>, <<Bin>>, <<<<201>>>>}

MatchRules ==
    {[include |-> i, exclude |-> e, base_layer |-> None, to_layer |-> None] :
        i \in IncludeLists, e \in ExcludeLists}
MatchConfigs == SeqsUpTo(MatchRules, MaxRules)

IdleMatch  == window_name = <<>> /\ matched = None
IdleConfig == file = <<>> /\ drain_order = <<>>
IdleWatch  == /\ backend = "none"
              /\ last_matched_window = None
              /\ previous_ev = None
              /\ status = "idle"
              /\ log = <<>>
              /\ failure_policy = {}
IdleMain   == command = <<>> /\ environment = <<>> /\ exit_status = <<>>
IdlePrint  == device = <<>> /\ handle = <<>> /\ calls = <<>> /\ stdout = <<>>
IdleKbd    == operation = <<>> /\ buffer = <<>> /\ hid = <<>> /\ wrote = <<>> /\ result = <<>>

(***************************************************************************)
(* Specification of the matcher: a rule list and a window name are drawn,  *)
(* matches_window is applied.                                              *)
(***************************************************************************)
InitMatch ==
    /\ pc = "match"
    /\ entries \in MatchConfigs
    /\ window_name \in MatchNames
    /\ matched = None
    /\ IdleConfig /\ IdleWatch /\ IdleKbd /\ IdleMain /\ IdlePrint

MatchWindow ==
    /\ pc = "match"
    /\ matched' = matches_window(entries, window_name)
    /\ pc' = "matched"
    /\ UNCHANGED <<entries, window_name, configVars, watchVars, kbdVars, mainVars, printVars>>

NextMatch == MatchWindow
SpecMatch == InitMatch /\ [][NextMatch]_vars

(***************************************************************************)
(* Case-insensitive substring containment, stated letter by letter.        *)
(***************************************************************************)
IsUpper(c) == (c >= 65 /\ c <= 90) \/ (c >= 192 /\ c <= 222 /\ c # 215)
SameLetter(c, d) == c = d \/ (IsUpper(c) /\ d = c + 32) \/ (IsUpper(d) /\ c = d + 32)
CISubstring(p, n) ==
    \E off \in 0..(Len(n) - Len(p)) :
        \A k \in 1..Len(p) : SameLetter(p[k], n[off + k])
Satisfies(r, n) ==
    /\ \E k \in 1..Len(r.include) : CISubstring(r.include[k], n)
    /\ ~\E k \in 1..Len(r.exclude) : CISubstring(r.exclude[k], n)
SatisfyingRules(es, n) == {i \in 1..Len(es) : Satisfies(es[i], n)}

PlainRule(inc, exc) ==
    [include |-> inc, exclude |-> exc, base_layer |-> None, to_layer |-> None]
\* The rule list of test_matches_window.
TestConfig == <<PlainRule(<<Foo>>, <<>>), PlainRule(<<Baz>>, <<Bin>>)>>

\* C5: matches_window returns the first rule, in list order, that has an
\* include pattern occurring case-insensitively in the name and no exclude
\* pattern occurring in it, and none when there is no such rule; a rule with
\* no include pattern is never returned; with the rules of the unit test,
\* "foo" and "baz" give rule 0 and rule 1, "baz bin" and "bin" give none.
C5_FirstMatch ==
    pc = "matched" =>
        LET sat == SatisfyingRules(entries, window_name)
        IN  /\ sat = {} => matched = None
            /\ sat # {} => matched = Some(CHOOSE i \in sat : \A j \in sat : i <= j)
            /\ IsSome(matched) => entries[matched[1]].include # <<>>
            /\ entries = TestConfig =>
                  /\ window_name = Foo => matched = Some(1)
                  /\ window_name = Baz => matched = Some(2)
                  /\ window_name = BazBin => matched = None
                  /\ window_name = Bin => matched = None

C5_Witness ==
    /\ pc = "matched"
    /\ entries = TestConfig
    /\ window_name = Baz
    /\ matched = Some(2)

\* C6 as claimed (rules compared by content): matches_window returns rule r exactly when r has an include
\* pattern occurring case-insensitively in the name and no exclude pattern
\* occurring in it.
C6_PerRuleIff ==
    pc = "matched" =>
        \A r \in 1..Len(entries) :
            (IsSome(matched) /\ entries[matched[1]] = entries[r])
                <=> Satisfies(entries[r], window_name)

\* C6 amended: matches_window returns rule r exactly when r satisfies the
\* include/exclude condition and no rule before r in the list satisfies it.
C6_PerRuleIffFirst ==
    pc = "matched" =>
        \A r \in 1..Len(entries) :
            matched = Some(r) <=>
                /\ Satisfies(entries[r], window_name)
                /\ \A j \in 1..(r - 1) : ~Satisfies(entries[j], window_name)

C6_Witness ==
    /\ pc = "matched"
    /\ Len(entries) = 2
    /\ Satisfies(entries[1], window_name)
    /\ Satisfies(entries[2], window_name)
    /\ entries[1] # entries[2]
    /\ matched = Some(1)

(***************************************************************************)
(* config.rs: loading the rule list.                                       *)
(***************************************************************************)
\* A merge in which a default layer overrides the entry's own.
apply_defaults_overwriting(self, other) ==
    [include    |-> IF IsSome(self.include) /\ other.include = <<>>
                    THEN self.include[1] ELSE other.include,
     exclude    |-> IF IsSome(self.exclude) /\ other.exclude = <<>>
                    THEN self.exclude[1] ELSE other.exclude,
     base_layer |-> IF IsSome(self.base_layer) THEN self.base_layer ELSE other.base_layer,
     to_layer   |-> IF IsSome(self.to_layer) THEN self.to_layer ELSE other.to_layer]

\* WindowWatcherGlobalConfig::apply_defaults; Option::or keeps the entry's own
\* value when it is present.
apply_defaults(self, other) ==
    [include    |-> IF IsSome(self.include) /\ other.include = <<>>
                    THEN self.include[1] ELSE other.include,
     exclude    |-> IF IsSome(self.exclude) /\ other.exclude = <<>>
                    THEN self.exclude[1] ELSE other.exclude,
     base_layer |-> IF IsSome(other.base_layer) THEN other.base_layer ELSE self.base_layer,
     to_layer   |-> IF IsSome(other.to_layer) THEN other.to_layer ELSE self.to_layer]

\* The orders in which HashMap::drain can yield n entries: the map is hashed
\* with a per-process random key, so every order can occur.
DrainOrders(n) == {f \in [1..n -> 1..n] : \A i, j \in 1..n : f[i] = f[j] => i = j}

PatX == <<120>>                             \* "x"
PatY == <<121>>                             \* "y"

GlobalConfigs ==
    [include    : {None, Some(<<>>), Some(<<PatX>>)},
     exclude    : {None, Some(<<PatY>>)},
     base_layer : {None, Some(1)},
     to_layer   : {None, Some(2)}]
DeclaredEntries ==
    [include    : {<<>>, <<<<97>>>>},
     exclude    : {<<>>, <<<<98>>>>},
     base_layer : {None, Some(0)},
     to_layer   : {None, Some(3)}]
NoGlobal == [include |-> None, exclude |-> None, base_layer |-> None, to_layer |-> None]
ConfigFiles ==
    {[valid |-> TRUE, global |-> g, entries |-> es] :
        g \in GlobalConfigs, es \in SeqsUpTo(DeclaredEntries, MaxRules)}
    \cup {[valid |-> FALSE, global |-> NoGlobal, entries |-> <<>>]}

(***************************************************************************)
(* Specification of loading: a configuration source is drawn, load_config  *)
(* is applied.                                                             *)
(***************************************************************************)
InitConfig ==
    /\ pc = "load"
    /\ file \in ConfigFiles
    /\ entries = <<>>
    /\ drain_order = <<>>
    /\ IdleMatch /\ IdleWatch /\ IdleKbd /\ IdleMain /\ IdlePrint

\* load_config on a source the config crate builds and deserializes.
LoadConfig ==
    /\ pc = "load"
    /\ file.valid
    /\ \E order \in DrainOrders(Len(file.entries)) :
          /\ drain_order' = order
          /\ entries' = [k \in 1..Len(file.entries) |->
                            apply_defaults(file.global, file.entries[order[k]])]
    /\ pc' = "loaded"
    /\ UNCHANGED <<file, matchVars, watchVars, kbdVars, mainVars, printVars>>

\* load_config on a source that fails to build or to deserialize: the error
\* is returned and no rule list exists.
LoadConfigError ==
    /\ pc = "load"
    /\ ~file.valid
    /\ pc' = "load_err"
    /\ UNCHANGED <<file, entries, drain_order, matchVars, watchVars, kbdVars, mainVars, printVars>>

NextConfig == LoadConfig \/ LoadConfigError
SpecConfig == InitConfig /\ [][NextConfig]_vars

\* C7: the loaded rule list holds the entries in the order of their
\* declaration in the configuration source (each merged with the defaults).
C7_DeclarationOrder ==
    pc = "loaded" =>
        entries = [k \in 1..Len(file.entries) |->
                      apply_defaults(file.global, file.entries[k])]

\* C8: each loaded rule takes include and exclude from its entry when the
\* entry's list is non-empty and from the defaults otherwise (empty when the
\* defaults have none), and each layer from the entry when present and from
\* the defaults otherwise; the entry with nothing of its own merged with the
\* defaults {include:[x], base_layer:1} gives {[x], [], Some(1), None}.
C8_DefaultsInheritance ==
    pc = "loaded" =>
        \A k \in 1..Len(entries) :
            LET e == file.entries[drain_order[k]]
                d == file.global
                r == entries[k]
                FromDefaults(o) == IF o = None THEN <<>> ELSE o[1]
            IN  /\ r.include = IF e.include # <<>> THEN e.include ELSE FromDefaults(d.include)
                /\ r.exclude = IF e.exclude # <<>> THEN e.exclude ELSE FromDefaults(d.exclude)
                /\ r.to_layer = IF e.to_layer # None THEN e.to_layer ELSE d.to_layer
                /\ r.base_layer = IF e.base_layer # None THEN e.base_layer ELSE d.base_layer
                /\ ( /\ e = PlainRule(<<>>, <<>>)
                     /\ d = [include |-> Some(<<PatX>>), exclude |-> None,
                             base_layer |-> Some(1), to_layer |-> None] )
                   => r = [include |-> <<PatX>>, exclude |-> <<>>,
                           base_layer |-> Some(1), to_layer |-> None]

C8_Witness ==
    /\ pc = "loaded"
    /\ file.global = [include |-> Some(<<PatX>>), exclude |-> None,
                      base_layer |-> Some(1), to_layer |-> None]
    /\ Len(entries) = 2
    /\ file.entries[drain_order[1]] = PlainRule(<<>>, <<>>)
    /\ entries[1] = [include |-> <<PatX>>, exclude |-> <<>>,
                     base_layer |-> Some(1), to_layer |-> None]
    /\ file.entries[drain_order[2]].to_layer = Some(3)
    /\ file.entries[drain_order[2]].base_layer = Some(0)
    /\ entries[2].base_layer = Some(0)

(***************************************************************************)
(* keyboard.rs: the report codec.                                          *)
(***************************************************************************)
REPORT_LENGTH == 32

OPERATION_BOOTLOADER == 66
OPERATION_GET_LAYER == 67
OPERATION_CHANGE_LAYER == 68
OPERATION_GET_LAYERS == 70
OPERATION_GET_JIGGLER == 71
OPERATION_SET_JIGGLER == 72

KEYBOARD_RESPONSE_CURRENT_LAYER == 67
KEYBOARD_RESPONSE_CURRENT_LAYER_NUM == 68
KEYBOARD_RESPONSE_JIGGLER_STATUS == 71

\* [0; REPORT_LENGTH]
ZeroReport == [i \in 1..REPORT_LENGTH |-> 0]

\* An encoding that leaves the argument byte of every operation at zero.
report_without_argument(op) ==
    CASE op[1] = "Bootloader"  -> [ZeroReport EXCEPT ![1] = OPERATION_BOOTLOADER]
      [] op[1] = "GetLayer"    -> [ZeroReport EXCEPT ![1] = OPERATION_GET_LAYER]
      [] op[1] = "ChangeLayer" -> [ZeroReport EXCEPT ![1] = OPERATION_CHANGE_LAYER]
      [] op[1] = "GetLayers"   -> [ZeroReport EXCEPT ![1] = OPERATION_GET_LAYERS]
      [] op[1] = "GetJiggler"  -> [ZeroReport EXCEPT ![1] = OPERATION_GET_JIGGLER]
      [] op[1] = "SetJiggler"  -> [ZeroReport EXCEPT ![1] = OPERATION_SET_JIGGLER]

\* Operation::report; an operation is <<tag>> or <<tag, argument>>.
report(op) ==
    CASE op[1] = "Bootloader"  -> [ZeroReport EXCEPT ![1] = OPERATION_BOOTLOADER]
      [] op[1] = "GetLayer"    -> [ZeroReport EXCEPT ![1] = OPERATION_GET_LAYER]
      [] op[1] = "ChangeLayer" -> [ZeroReport EXCEPT ![1] = OPERATION_CHANGE_LAYER,
                                                     ![2] = op[2]]
      [] op[1] = "GetLayers"   -> [ZeroReport EXCEPT ![1] = OPERATION_GET_LAYERS]
      [] op[1] = "GetJiggler"  -> [ZeroReport EXCEPT ![1] = OPERATION_GET_JIGGLER]
      [] op[1] = "SetJiggler"  -> [ZeroReport EXCEPT ![1] = OPERATION_SET_JIGGLER,
                                                     ![2] = IF op[2] THEN 1 ELSE 0]

\* Iterator::take_while(is_ascii) over the bytes of buf from position i on.
RECURSIVE take_while_ascii(_, _)
take_while_ascii(buf, i) ==
    IF i > Len(buf) \/ ~is_ascii(buf[i]) THEN <<>>
    ELSE <<buf[i]>> \o take_while_ascii(buf, i + 1)

\* A decoder that takes the jiggler to be on only for the status byte 1.
parse_response_status_one(buf) ==
    IF buf[1] = KEYBOARD_RESPONSE_CURRENT_LAYER
    THEN <<"CurrentLayer", buf[2], take_while_ascii(buf, 3)>>
    ELSE IF buf[1] = KEYBOARD_RESPONSE_CURRENT_LAYER_NUM
    THEN <<"CurrentLayerNum", buf[2]>>
    ELSE IF buf[1] = KEYBOARD_RESPONSE_JIGGLER_STATUS
    THEN <<"JigglerStatus", buf[2] = 1>>
    ELSE <<"None">>

\* KeyboardResponse: <<"None">>, <<"CurrentLayerNum", layer>>,
\* <<"CurrentLayer", layer, name>>, <<"JigglerStatus", status>>.
\* KeyboardResponse::parse_response; the first two bytes are the tag and the
\* layer number, the name starts at the third.
parse_response(buf) ==
    IF buf[1] = KEYBOARD_RESPONSE_CURRENT_LAYER
    THEN <<"CurrentLayer", buf[2], take_while_ascii(buf, 3)>>
    ELSE IF buf[1] = KEYBOARD_RESPONSE_CURRENT_LAYER_NUM
    THEN <<"CurrentLayerNum", buf[2]>>
    ELSE IF buf[1] = KEYBOARD_RESPONSE_JIGGLER_STATUS
    THEN <<"JigglerStatus", buf[2] # 0>>
    ELSE <<"None">>

(***************************************************************************)
(* keyboard.rs: one transaction.                                           *)
(***************************************************************************)
Ok(v) == <<"Ok", v>>
Err(e) == <<"Err", e>>
IsOk(r) == r[1] = "Ok"
IsErr(r) == r[1] = "Err"

\* TransposableResult::transpose
transpose(r) == IF IsOk(r) THEN Err(r[2]) ELSE Ok(r[2])

\* HidError::to_string().contains("device disconnected"); an error is
\* modelled by its message.
says_disconnected(e) == e = "device disconnected"

\* HidDevice::read_timeout as send_message sees it: the buffer it leaves in
\* resp_buf and the result it returns.  A wait that ends with no report
\* returns Ok(0) and leaves resp_buf untouched.
read_timeout(outcome, reply) ==
    CASE outcome = "report"       -> [resp_buf |-> reply, ret |-> Ok(REPORT_LENGTH)]
      [] outcome = "timeout"      -> [resp_buf |-> ZeroReport, ret |-> Ok(0)]
      [] outcome = "disconnected" -> [resp_buf |-> ZeroReport, ret |-> Err("device disconnected")]
      [] outcome = "io_error"     -> [resp_buf |-> ZeroReport, ret |-> Err("hid error")]

\* The chain of combinators of send_message from read_timeout to the `?`.
read_response(outcome, reply) ==
    LET rd      == read_timeout(outcome, reply)
        unit    == IF IsOk(rd.ret) THEN Ok("unit") ELSE rd.ret
        flipped == transpose(unit)
        checked == IF IsOk(flipped)
                   THEN (IF says_disconnected(flipped[2]) THEN Err("unit") ELSE Ok(flipped[2]))
                   ELSE flipped
        back    == transpose(checked)
    IN  IF IsOk(back) THEN Ok(parse_response(rd.resp_buf)) ELSE back

\* The frame handed to HidDevice::write: a zero byte followed by the report.
frame_of(op) == <<0>> \o report(op)

ReadOutcomes == {"report", "timeout", "disconnected", "io_error"}

(***************************************************************************)
(* Inputs of the keyboard specification.                                   *)
(***************************************************************************)
Layers == {0, 5, 255}
Operations ==
    {<<"Bootloader">>, <<"GetLayer">>, <<"GetLayers">>, <<"GetJiggler">>}
    \cup {<<"ChangeLayer", l>> : l \in Layers}
    \cup {<<"SetJiggler", b>> : b \in BOOLEAN}

TagBytes == {0, 66, 67, 68, 71, 255}
ArgBytes == {0, 1, 3}
PayloadBytes == {0, 81, 87, 128}            \* NUL Q W and a byte above ASCII
FillBytes == {0, 255}
Reports ==
    {LET head == <<t, a>> \o p
     IN  head \o [i \in 1..(REPORT_LENGTH - Len(head)) |-> f] :
        t \in TagBytes, a \in ArgBytes,
        p \in SeqsUpTo(PayloadBytes, MaxPayload), f \in FillBytes}

(***************************************************************************)
(* Specification of the keyboard: an operation and the report the device   *)
(* would answer with are drawn; send_message runs one transaction, or      *)
(* parse_response decodes the report.                                      *)
(***************************************************************************)
InitKbd ==
    /\ pc = "send"
    /\ operation \in Operations
    /\ buffer \in Reports
    /\ hid = <<>>
    /\ wrote = <<>>
    /\ result = <<>>
    /\ entries = <<>>
    /\ IdleMatch /\ IdleConfig /\ IdleWatch /\ IdleMain /\ IdlePrint

\* send_message when HidDevice::write succeeds.
SendMessage ==
    /\ pc = "send"
    /\ \E outcome \in ReadOutcomes :
          /\ hid' = <<"write_ok", outcome>>
          /\ result' = read_response(outcome, buffer)
    /\ wrote' = frame_of(operation)
    /\ pc' = "returned"
    /\ UNCHANGED <<operation, buffer, entries, matchVars, configVars, watchVars, mainVars, printVars>>

\* send_message when HidDevice::write fails: expect panics.
SendMessageWriteFails ==
    /\ pc = "send"
    /\ hid' = <<"write_failed">>
    /\ wrote' = <<>>
    /\ result' = <<"Panic", "Could not write to HID device">>
    /\ pc' = "panicked"
    /\ UNCHANGED <<operation, buffer, entries, matchVars, configVars, watchVars, mainVars, printVars>>

\* parse_response applied to the report.
ParseResponse ==
    /\ pc = "send"
    /\ result' = parse_response(buffer)
    /\ pc' = "parsed"
    /\ UNCHANGED <<operation, buffer, hid, wrote, entries, matchVars, configVars, watchVars, mainVars, printVars>>

NextKbd == SendMessage \/ SendMessageWriteFails \/ ParseResponse
SpecKbd == InitKbd /\ [][NextKbd]_vars

\* Bytes taken from position i on while they are printable ASCII text.
RECURSIVE PrintablePrefix(_, _)
PrintablePrefix(buf, i) ==
    IF i > Len(buf) \/ buf[i] < 32 \/ buf[i] > 126 THEN <<>>
    ELSE <<buf[i]>> \o PrintablePrefix(buf, i + 1)

\* C9: a report whose first byte is 0x43 decodes to CurrentLayer(byte 1, name)
\* where name is the bytes from index 2 up to, not including, the first byte
\* that is not a printable text character; [0x43, 3, 'Q', 'W', 0, ...] gives
\* CurrentLayer(3, "QW").
C9_CurrentLayerName ==
    (pc = "parsed" /\ buffer[1] = 67) =>
        result = <<"CurrentLayer", buffer[2], PrintablePrefix(buffer, 3)>>

\* C10: when the read of a transaction times out or the device is gone,
\* send_message returns an error, a different one in each case, and never a
\* successful response.
C10_FailuresAreErrors ==
    (pc = "returned" /\ hid[2] \in {"timeout", "disconnected"}) =>
        /\ IsErr(result)
        /\ hid[2] = "timeout" => ~says_disconnected(result[2])
        /\ hid[2] = "disconnected" => says_disconnected(result[2])

\* C11: the frame send_message writes is 33 bytes: a zero report-id byte and
\* the 32-byte report, whose byte 0 is the opcode of the operation (0x42
\* Bootloader, 0x43 GetLayer, 0x44 ChangeLayer, 0x46 GetLayers, 0x47
\* GetJiggler, 0x48 SetJiggler), whose byte 1 is the layer for ChangeLayer,
\* 1 or 0 for SetJiggler(true/false) and 0 otherwise, and whose other bytes
\* are zero; ChangeLayer(5) gives [0x44, 5, 0, ...].
C11_EncodingAndFrame ==
    pc = "returned" =>
        LET tag == operation[1]
        IN  /\ Len(wrote) = 33
            /\ wrote[1] = 0
            /\ tag = "Bootloader" => wrote[2] = 66
            /\ tag = "GetLayer" => wrote[2] = 67
            /\ tag = "ChangeLayer" => wrote[2] = 68
            /\ tag = "GetLayers" => wrote[2] = 70
            /\ tag = "GetJiggler" => wrote[2] = 71
            /\ tag = "SetJiggler" => wrote[2] = 72
            /\ tag = "ChangeLayer" => wrote[3] = operation[2]
            /\ tag = "SetJiggler" => wrote[3] = (IF operation[2] THEN 1 ELSE 0)
            /\ tag \notin {"ChangeLayer", "SetJiggler"} => wrote[3] = 0
            /\ \A i \in 4..33 : wrote[i] = 0
            /\ \A i \in 1..32 : report(operation)[i] = wrote[i + 1]

C11_Witness ==
    /\ pc = "returned"
    /\ operation = <<"ChangeLayer", 5>>
    /\ Len(wrote) = 33
    /\ wrote[2] = 68
    /\ wrote[3] = 5

\* C12: decoding depends on byte 0 alone and never fails: 0x44 gives
\* CurrentLayerNum(byte 1), 0x47 gives JigglerStatus(byte 1 # 0), 0x43 gives
\* a CurrentLayer response, every other value gives None; a report that was
\* read and matches no known tag makes send_message return Ok(None).
C12_DecodeDispatch ==
    /\ pc = "parsed" =>
          /\ buffer[1] = 68 => result = <<"CurrentLayerNum", buffer[2]>>
          /\ buffer[1] = 71 => result = <<"JigglerStatus", buffer[2] # 0>>
          /\ buffer[1] = 67 => (Len(result) = 3 /\ result[1] = "CurrentLayer"
                                /\ result[2] = buffer[2])
          /\ buffer[1] \notin {67, 68, 71} => result = <<"None">>
          /\ result[1] \in {"None", "CurrentLayerNum", "CurrentLayer", "JigglerStatus"}
    /\ (pc = "returned" /\ hid = <<"write_ok", "report">>) =>
          /\ IsOk(result)
          /\ buffer[1] = 68 => result[2] = <<"CurrentLayerNum", buffer[2]>>
          /\ buffer[1] = 71 => result[2] = <<"JigglerStatus", buffer[2] # 0>>
          /\ buffer[1] = 67 => result[2][1] = "CurrentLayer"
          /\ buffer[1] \notin {67, 68, 71} => result[2] = <<"None">>

C12_Witness ==
    /\ pc = "returned"
    /\ hid = <<"write_ok", "report">>
    /\ buffer[1] = 255
    /\ buffer[2] = 3
    /\ result = Ok(<<"None">>)


(***************************************************************************)
(* main.rs: what one focus step does with the device.                      *)
(***************************************************************************)
ChangeLayer(layer) == <<"ChangeLayer", layer>>

\* What the HID layer does when a focus step reaches it: HidApi::new fails,
\* no device matches, open_path fails, write fails, or the write succeeds
\* and the read ends in one of its four ways.
DevOutcomes ==
    {<<"api_err">>, <<"not_found">>, <<"open_failed">>, <<"write_failed">>}
    \cup {<<"write_ok", o>> : o \in ReadOutcomes}

\* connect_to_keyboard / Keyboard::new: Err when HidApi::new fails, a panic
\* (expect) when the device is not found or cannot be opened.
connect_to_keyboard(dev) ==
    IF dev[1] = "api_err" THEN "err"
    ELSE IF dev[1] \in {"not_found", "open_failed"} THEN "panic"
    ELSE "ok"

\* `let keyboard = self.connect_to_keyboard()?; layer.map(|layer|
\* keyboard.send_message(ChangeLayer(layer)));` -- the result of send_message
\* is dropped, a failed write panics inside it.  `failure` tells where the
\* device failed while a ChangeLayer was to be sent (obtaining the handle,
\* the write, the read) together with what became of the loop.
change_layer_step(layer, dev) ==
    IF connect_to_keyboard(dev) # "ok"
    THEN [status |-> connect_to_keyboard(dev), opened |-> FALSE, cmds |-> <<>>,
          hid |-> <<dev[1]>>,
          failure |-> IF layer = None THEN None
                      ELSE Some(<<"handle", connect_to_keyboard(dev)>>)]
    ELSE IF layer = None
    THEN [status |-> "running", opened |-> TRUE, cmds |-> <<>>, hid |-> <<"opened">>,
          failure |-> None]
    ELSE IF dev[1] = "write_failed"
    THEN [status |-> "panic", opened |-> TRUE, cmds |-> <<ChangeLayer(layer[1])>>,
          hid |-> dev, failure |-> Some(<<"write", "panic">>)]
    ELSE [status |-> "running", opened |-> TRUE, cmds |-> <<ChangeLayer(layer[1])>>,
          hid |-> dev,
          failure |-> IF dev[2] = "report" THEN None ELSE Some(<<"read", "running">>)]

\* A focus step that does not reach the device.
no_device_step ==
    [status |-> "running", opened |-> FALSE, cmds |-> <<>>, hid |-> <<"untouched">>,
     failure |-> None]

(***************************************************************************)
(* hyprland.rs: Event::from_line, the decoder of the event socket.         *)
(***************************************************************************)
\* char::is_whitespace, the characters str::trim removes
is_whitespace(c) ==
    c \in (9..13) \cup {32, 133, 160, 5760, 8232, 8233, 8239, 8287, 12288} \cup (8192..8202)

RECURSIVE trim_start(_)
trim_start(s) ==
    IF s # <<>> /\ is_whitespace(Head(s)) THEN trim_start(Tail(s)) ELSE s

RECURSIVE trim_end(_)
trim_end(s) ==
    IF s # <<>> /\ is_whitespace(s[Len(s)]) THEN trim_end(SubSeq(s, 1, Len(s) - 1)) ELSE s

\* str::trim
trim(s) == trim_end(trim_start(s))

\* str::split_once: the parts before and after the first occurrence of the
\* delimiter, None when it does not occur.
split_once(s, delimiter) ==
    LET at == {i \in 1..(Len(s) - Len(delimiter) + 1) :
                  SubSeq(s, i, i + Len(delimiter) - 1) = delimiter}
    IN  IF at = {} THEN None
        ELSE LET i == CHOOSE x \in at : \A y \in at : x <= y
             IN  Some(<<SubSeq(s, 1, i - 1), SubSeq(s, i + Len(delimiter), Len(s))>>)

StrActiveWindow == <<97, 99, 116, 105, 118, 101, 119, 105, 110, 100, 111, 119>>  \* "activewindow"
StrArrows == <<62, 62>>                                                          \* ">>"
StrComma == <<44>>                                                               \* ","

\* Event::from_line: Ok(<<"ActiveWindow", class, title>>), Ok(<<"Nothing", line>>)
\* or the error of a line without ">>" or of an activewindow payload
\* without a comma.
from_line(line) ==
    LET parts == split_once(line, StrArrows)
    IN  IF parts = None THEN Err("Invalid event line")
        ELSE LET event_name == parts[1][1]
                 data       == parts[1][2]
             IN  IF trim(event_name) = StrActiveWindow
                 THEN LET fields == split_once(data, StrComma)
                      IN  IF fields = None THEN Err("Invalid active_window data")
                          ELSE Ok(<<"ActiveWindow", trim(fields[1][1]), trim(fields[1][2])>>)
                 ELSE Ok(<<"Nothing", line>>)

(***************************************************************************)
(* main.rs: watch_hyprland_focus, one ActiveWindow event.                  *)
(***************************************************************************)
\* format!("{} - {}", class, title)
hyprland_name(class, title) == class \o <<32, 45, 32>> \o title

\* The step of a loop that never forgets the rule it remembered when the
\* focus leaves it.
hyprland_focus_keeping(es, lmw, name, dev) ==
    LET m == matches_window(es, name)
    IN  IF IsSome(m)
        THEN [lmw |-> m, step |-> change_layer_step(es[m[1]].to_layer, dev)]
        ELSE IF IsSome(lmw)
        THEN [lmw |-> lmw, step |-> change_layer_step(es[lmw[1]].base_layer, dev)]
        ELSE [lmw |-> lmw, step |-> no_device_step]

\* One ActiveWindow event: the matched rule is remembered before the device
\* is reached; on a miss the remembered rule's base_layer is sent and the
\* rule is forgotten, unless connect_to_keyboard()? left the loop first.
hyprland_focus(es, lmw, name, dev) ==
    LET m == matches_window(es, name)
    IN  IF IsSome(m)
        THEN [lmw |-> m, step |-> change_layer_step(es[m[1]].to_layer, dev)]
        ELSE IF IsSome(lmw)
        THEN LET st == change_layer_step(es[lmw[1]].base_layer, dev)
             IN  [lmw |-> IF st.status = "running" THEN None ELSE lmw, step |-> st]
        ELSE [lmw |-> lmw, step |-> no_device_step]

(***************************************************************************)
(* main.rs: the callback of watch_i3_focus.                                *)
(***************************************************************************)
\* window_name.chars().filter(|c| c.is_ascii()).collect::<String>()
ascii_only(s) == SelectSeq(s, is_ascii)

\* The current node's name is matched with its non-ASCII characters removed,
\* the previous event's name as it is.
i3_focus(es, prev_ev, window_data, dev) ==
    IF window_data.name = None THEN no_device_step
    ELSE LET m == matches_window(es, ascii_only(window_data.name[1]))
         IN  IF IsSome(m) THEN change_layer_step(es[m[1]].to_layer, dev)
             ELSE IF IsSome(prev_ev) /\ IsSome(prev_ev[1].name)
             THEN LET pm == matches_window(es, prev_ev[1].name[1])
                  IN  IF IsSome(pm) THEN change_layer_step(es[pm[1]].base_layer, dev)
                      ELSE no_device_step
             ELSE no_device_step

(***************************************************************************)
(* Inputs of the watch specification.                                      *)
(***************************************************************************)
StrAb == <<97, 98>>                         \* "ab"
StrAeb == <<97, 233, 98>>                   \* "a", e-acute, "b"
StrC == <<99>>                              \* "c"
StrX == <<120>>                             \* "x"
StrE == <<201>>                             \* capital e-acute

RuleAb == [include |-> <<StrAb>>, exclude |-> <<>>, base_layer |-> Some(0), to_layer |-> Some(2)]
RuleE  == [include |-> <<<<233>>>>, exclude |-> <<>>, base_layer |-> Some(3), to_layer |-> Some(1)]
RuleC  == [include |-> <<StrC>>, exclude |-> <<>>, base_layer |-> None, to_layer |-> None]
\* The rule lists the watchers are run with: none, one rule, two different rules.
WatchConfigs ==
    {<<>>, <<RuleAb>>, <<RuleE>>, <<RuleC>>,
     <<RuleAb, RuleE>>, <<RuleE, RuleAb>>, <<RuleAb, RuleC>>, <<RuleC, RuleAb>>,
     <<RuleE, RuleC>>, <<RuleC, RuleE>>}

\* class and title of the ActiveWindow events
HyprlandWindows ==
    {<<StrAb, <<>>>>, <<StrAb, StrC>>, <<StrX, StrC>>, <<StrX, <<>>>>, <<<<97, 233>>, <<98>>>>}
\* The line the socket carries for an ActiveWindow event.
ActiveWindowLine(class, title) == StrActiveWindow \o StrArrows \o class \o StrComma \o title
LinePadded == <<32>> \o StrActiveWindow \o <<32>> \o StrArrows \o <<32>> \o StrX
                  \o <<32>> \o StrComma \o <<32>> \o StrC \o <<32>>   \* " activewindow >> x , c "
LineWorkspace == <<119, 111, 114, 107, 115, 112, 97, 99, 101>> \o StrArrows \o <<49>>  \* "workspace>>1"
LineNoComma == StrActiveWindow \o StrArrows \o StrAb                    \* "activewindow>>ab"
LineNoArrows == StrActiveWindow \o StrComma \o StrAb                    \* "activewindow,ab"
\* The lines the event socket delivers.
HyprlandLines ==
    {ActiveWindowLine(w[1], w[2]) : w \in HyprlandWindows}
    \cup {LinePadded, LineWorkspace, LineNoComma, LineNoArrows}

\* Each line with what the decoder makes of it.
DecodedLines == {<<line, from_line(line)>> : line \in HyprlandLines}

\* container.name of the window events
I3Windows ==
    {[name |-> n] : n \in {None, Some(StrAb), Some(StrAeb), Some(StrC), Some(StrX), Some(StrE)}}

(***************************************************************************)
(* Specification of the focus watchers.                                    *)
(***************************************************************************)
InitWatch ==
    /\ pc = "watch"
    /\ backend \in {"hyprland", "i3"}
    /\ entries \in WatchConfigs
    /\ last_matched_window = None
    /\ previous_ev = None
    /\ status = "connecting"
    /\ log = <<>>
    /\ failure_policy = {}
    /\ hid = <<"untouched">>
    /\ operation = <<>> /\ buffer = <<>> /\ wrote = <<>> /\ result = <<>>
    /\ IdleMatch /\ IdleConfig /\ IdleMain /\ IdlePrint

watchFrame == <<pc, entries, backend, operation, buffer, wrote, result, matchVars, configVars,
               mainVars, printVars>>

Running(b) == pc = "watch" /\ backend = b /\ status = "running" /\ Len(log) < MaxEvents

\* What the log keeps of one consumed event: its kind, the window name of a
\* focus event, the previous event the i3 callback was handed, the line the
\* hyprland decoder rejected, and what the step did with the device.
LogEntry(kind, window, prev, line, step) ==
    [kind |-> kind, window |-> window, prev |-> prev, line |-> line,
     opened |-> step.opened, cmds |-> step.cmds]

\* The device failures met so far, with the one of this step added.
note_failure(step) ==
    IF step.failure = None THEN failure_policy ELSE failure_policy \cup {step.failure[1]}

\* Hyprland::connect succeeds and the loop is entered.
HyprlandConnect ==
    /\ pc = "watch" /\ backend = "hyprland" /\ status = "connecting"
    /\ status' = "running"
    /\ UNCHANGED <<watchFrame, last_matched_window, previous_ev, log, hid, failure_policy>>

\* Hyprland::connect fails: watch_hyprland_focus returns the error.
HyprlandConnectFails ==
    /\ pc = "watch" /\ backend = "hyprland" /\ status = "connecting"
    /\ status' = "err"
    /\ UNCHANGED <<watchFrame, last_matched_window, previous_ev, log, hid, failure_policy>>

\* One iteration of the loop of watch_hyprland_focus on a line that decodes
\* to an ActiveWindow event.
HyprlandActiveWindow ==
    /\ Running("hyprland")
    /\ \E decoded \in DecodedLines, dev \in DevOutcomes :
          LET event == decoded[2]
          IN  /\ IsOk(event)
              /\ event[2][1] = "ActiveWindow"
              /\ LET name == hyprland_name(event[2][2], event[2][3])
                     r    == hyprland_focus(entries, last_matched_window, name, dev)
                 IN  /\ last_matched_window' = r.lmw
                     /\ status' = r.step.status
                     /\ hid' = r.step.hid
                     /\ failure_policy' = note_failure(r.step)
                     /\ log' = Append(log, LogEntry("focus", Some(name), None, None, r.step))
    /\ UNCHANGED <<watchFrame, previous_ev>>

\* One iteration on a line that decodes to Event::Nothing.
HyprlandOtherEvent ==
    /\ Running("hyprland")
    /\ \E decoded \in DecodedLines :
          /\ IsOk(decoded[2])
          /\ decoded[2][2][1] = "Nothing"
    /\ hid' = <<"untouched">>
    /\ log' = Append(log, LogEntry("nothing", None, None, None, no_device_step))
    /\ UNCHANGED <<watchFrame, last_matched_window, previous_ev, status, failure_policy>>

\* A line from_line rejects: the decoder returns the error, the stream
\* yields Some(Err(..)), `while let Some(Ok(event))` does not match, the
\* loop is left and Ok(()) is returned.
HyprlandDecodeError ==
    /\ Running("hyprland")
    /\ \E decoded \in DecodedLines :
          /\ IsErr(decoded[2])
          /\ log' = Append(log, LogEntry("decode_error", None, None, Some(decoded[1]),
                                         no_device_step))
    /\ hid' = <<"untouched">>
    /\ status' = "ok"
    /\ UNCHANGED <<watchFrame, last_matched_window, previous_ev, failure_policy>>

\* The stream yields None, or an error item of the line codec below the
\* decoder: the loop ends, Ok(()) is returned.
HyprlandStreamStops ==
    /\ pc = "watch" /\ backend = "hyprland" /\ status = "running"
    /\ status' = "ok"
    /\ UNCHANGED <<watchFrame, last_matched_window, previous_ev, log, hid, failure_policy>>

\* I3::connect and subscribe succeed and the listener loop is entered.
I3Connect ==
    /\ pc = "watch" /\ backend = "i3" /\ status = "connecting"
    /\ status' = "running"
    /\ UNCHANGED <<watchFrame, last_matched_window, previous_ev, log, hid, failure_policy>>

\* I3::connect or subscribe fails, or the subscription is refused.
I3ConnectFails ==
    /\ pc = "watch" /\ backend = "i3" /\ status = "connecting"
    /\ status' = "err"
    /\ UNCHANGED <<watchFrame, last_matched_window, previous_ev, log, hid, failure_policy>>

\* The slot that keeps the previous event, where the callback never
\* replaces an event once one is remembered.
remember_first(prev, ev, step) ==
    IF step.status = "running" /\ prev = None THEN Some(ev) ELSE prev

\* `let p_ev = Some(ev.clone()); f(previous_ev, ev)?; previous_ev = p_ev;`
\* the event replaces the remembered one when the callback returned Ok.
remember(prev, ev, step) ==
    IF step.status = "running" THEN Some(ev) ELSE prev

\* A window event whose change is Focus: the callback runs with the
\* remembered previous event, which is replaced when the callback returns Ok.
I3WindowFocus ==
    /\ Running("i3")
    /\ \E ev \in I3Windows, dev \in DevOutcomes :
          LET st == i3_focus(entries, previous_ev, ev, dev)
          IN  /\ status' = st.status
              /\ hid' = st.hid
              /\ failure_policy' = note_failure(st)
              /\ previous_ev' = remember(previous_ev, ev, st)
              /\ log' = Append(log, LogEntry("focus", ev.name, previous_ev, None, st))
    /\ UNCHANGED <<watchFrame, last_matched_window>>

\* A window event with any other change: no callback.
I3WindowOther ==
    /\ Running("i3")
    /\ hid' = <<"untouched">>
    /\ log' = Append(log, LogEntry("window_other", None, None, None, no_device_step))
    /\ UNCHANGED <<watchFrame, last_matched_window, previous_ev, status, failure_policy>>

\* A shutdown event is printed; the loop goes on to the next item.
I3Shutdown ==
    /\ Running("i3")
    /\ hid' = <<"untouched">>
    /\ log' = Append(log, LogEntry("shutdown", None, None, None, no_device_step))
    /\ UNCHANGED <<watchFrame, last_matched_window, previous_ev, status, failure_policy>>

\* The listener yields None: Ok(()) is returned.
I3ListenerEnds ==
    /\ pc = "watch" /\ backend = "i3" /\ status = "running"
    /\ status' = "ok"
    /\ UNCHANGED <<watchFrame, last_matched_window, previous_ev, log, hid, failure_policy>>

\* The listener yields an error item: `e?` returns it.
I3ListenerError ==
    /\ pc = "watch" /\ backend = "i3" /\ status = "running"
    /\ status' = "err"
    /\ UNCHANGED <<watchFrame, last_matched_window, previous_ev, log, hid, failure_policy>>

\* The listener yields an event of a class that was not subscribed to.
I3UnexpectedEvent ==
    /\ pc = "watch" /\ backend = "i3" /\ status = "running"
    /\ status' = "panic"
    /\ UNCHANGED <<watchFrame, last_matched_window, previous_ev, log, hid, failure_policy>>

NextWatch ==
    \/ HyprlandConnect \/ HyprlandConnectFails
    \/ HyprlandActiveWindow \/ HyprlandOtherEvent \/ HyprlandDecodeError
    \/ HyprlandStreamStops
    \/ I3Connect \/ I3ConnectFails
    \/ I3WindowFocus \/ I3WindowOther \/ I3Shutdown
    \/ I3ListenerEnds \/ I3ListenerError \/ I3UnexpectedEvent
SpecWatch == InitWatch /\ [][NextWatch]_vars

(***************************************************************************)
(* main.rs: main and the one-shot commands, up to the exit of the process. *)
(***************************************************************************)
\* Commands with their options; `config` is Option of a path.
ConfigPath == <<99>>
Commands ==
    {<<"PrintKeyboardLayer">>, <<"KeyboardBootloader">>,
     <<"EnableMouseJiggle">>, <<"DisableMouseJiggle">>}
    \cup {<<"ChangeKeyboardLayer", l>> : l \in Layers}
    \cup {<<w, create_config, config>> :
            w \in {"WatchWindowFocus", "WatchI3Focus"},
            create_config \in BOOLEAN,
            config \in {None, Some(ConfigPath)}}

\* What main meets outside the program: whether --quiet was given and
\* simple_logger::init_with_level succeeds, whether the configuration file
\* loads, whether HYPRLAND_INSTANCE_SIGNATURE is set, whether the window
\* manager's socket accepts the connection, how a watch loop that was
\* entered ends, and what the HID layer does for a one-shot command.
Environments ==
    [quiet : BOOLEAN,
     logger : {"ok", "err"},
     config_file : {"valid", "invalid"},
     hyprland_signature : BOOLEAN,
     transport : {"ok", "refused"},
     session : {"ok", "err", "panic"},
     hid : DevOutcomes]

\* connect_to_keyboard()? followed by send_message(..)? in a one-shot
\* command: "ok", "err" (an Err is returned) or "panic".
one_shot(dev) ==
    IF connect_to_keyboard(dev) # "ok" THEN connect_to_keyboard(dev)
    ELSE IF dev[1] = "write_failed" THEN "panic"
    ELSE IF IsErr(read_response(dev[2], ZeroReport)) THEN "err"
    ELSE "ok"

\* watch_hyprland_focus / watch_i3_focus as main sees them: the connect
\* error, or the way the loop ended.
watch_session(env) == IF env.transport = "refused" THEN "err" ELSE env.session

\* print_error(r) logs an Err and yields (); main then returns Ok(()).  A
\* panic inside the command unwinds through main.
print_error(r) == IF r = "panic" THEN "panic" ELSE "success"

\* simple_logger::init_with_level(..)? is reached unless --quiet is given.
LoggerFails == ~environment.quiet /\ environment.logger = "err"

IsWatch == command[1] \in {"WatchWindowFocus", "WatchI3Focus"}

InitMain ==
    /\ pc = "main"
    /\ command \in Commands
    /\ environment \in Environments
    /\ exit_status = <<>>
    /\ entries = <<>>
    /\ IdleMatch /\ IdleConfig /\ IdleWatch /\ IdleKbd /\ IdlePrint

mainFrame == <<command, environment, entries, matchVars, configVars, watchVars, kbdVars,
               printVars>>

\* The logger cannot be installed: main returns the error.
MainLoggerFails ==
    /\ pc = "main" /\ LoggerFails
    /\ exit_status' = "failure" /\ pc' = "exited"
    /\ UNCHANGED mainFrame

\* print_keyboard_layer, keyboard_bootloader, change_keyboard_layer and
\* set_mouse_jiggle, each wrapped in print_error.
MainOneShot ==
    /\ pc = "main" /\ ~LoggerFails /\ ~IsWatch
    /\ exit_status' = print_error(one_shot(environment.hid)) /\ pc' = "exited"
    /\ UNCHANGED mainFrame

\* --create-config: `return Ok(())`.
MainCreateConfig ==
    /\ pc = "main" /\ ~LoggerFails /\ IsWatch /\ command[2]
    /\ exit_status' = "success" /\ pc' = "exited"
    /\ UNCHANGED mainFrame

\* No --config: error!("No window names provided"), then Ok(()).
MainNoConfig ==
    /\ pc = "main" /\ ~LoggerFails /\ IsWatch /\ ~command[2] /\ command[3] = None
    /\ exit_status' = "success" /\ pc' = "exited"
    /\ UNCHANGED mainFrame

\* load_config(config)? returns the error of the builder or of the
\* deserializer.
MainLoadConfigFails ==
    /\ pc = "main" /\ ~LoggerFails /\ IsWatch /\ ~command[2] /\ IsSome(command[3])
    /\ environment.config_file = "invalid"
    /\ exit_status' = "failure" /\ pc' = "exited"
    /\ UNCHANGED mainFrame

\* The configuration is loaded and a watcher is run inside print_error: the
\* hyprland one when HYPRLAND_INSTANCE_SIGNATURE is set, the i3 one otherwise.
MainWatch ==
    /\ pc = "main" /\ ~LoggerFails /\ IsWatch /\ ~command[2] /\ IsSome(command[3])
    /\ environment.config_file = "valid"
    /\ exit_status' = print_error(watch_session(environment)) /\ pc' = "exited"
    /\ UNCHANGED mainFrame

NextMain ==
    \/ MainLoggerFails \/ MainOneShot \/ MainCreateConfig \/ MainNoConfig
    \/ MainLoadConfigFails \/ MainWatch
SpecMain == InitMain /\ [][NextMain]_vars

\* The startup-time failures of a run: the device of a one-shot command is
\* not found, the configuration a watcher is started with is invalid, the
\* window manager's socket refuses the connection.
ReachesWatcher == IsWatch /\ ~command[2] /\ IsSome(command[3]) /\ ~LoggerFails
DeviceNotFound == ~IsWatch /\ ~LoggerFails /\ environment.hid = <<"not_found">>
ConfigurationInvalid == ReachesWatcher /\ environment.config_file = "invalid"
TransportConnectFails ==
    ReachesWatcher /\ environment.config_file = "valid" /\ environment.transport = "refused"

\* C15: every startup-time failure (device not found, configuration
\* invalid, window-manager transport connect failure) ends the process with
\* a status other than success.
C15_StartupFailureExitStatus ==
    (pc = "exited" /\ (DeviceNotFound \/ ConfigurationInvalid \/ TransportConnectFails))
    => exit_status # "success"

(***************************************************************************)
(* main.rs: print_keyboard_layer, two transactions on one open handle.     *)
(* The handle keeps the requests the device has not answered yet and the   *)
(* input reports that wait to be read, oldest first.                       *)
(***************************************************************************)
\* The operations print_keyboard_layer sends, in order.
PrintOperations == <<<<"GetLayer">>, <<"GetJiggler">>>>

LayerName == <<81, 87>>                      \* "QW"
PrintLayers == {0, 1, 3}
JigglerBytes == {0, 1}

\* The report the keyboard answers request n with.
reply(n, dev) ==
    LET head == IF PrintOperations[n] = <<"GetLayer">>
                THEN <<KEYBOARD_RESPONSE_CURRENT_LAYER, dev.layer>> \o LayerName
                ELSE <<KEYBOARD_RESPONSE_JIGGLER_STATUS, dev.jiggler>>
    IN  head \o [i \in 1..(REPORT_LENGTH - Len(head)) |-> 0]

InitPrint ==
    /\ pc = <<"connect">>
    /\ device \in [layer : PrintLayers, jiggler : JigglerBytes]
    /\ handle = [requests |-> <<>>, reports |-> <<>>]
    /\ calls = <<>>
    /\ stdout = <<>>
    /\ entries = <<>>
    /\ IdleMatch /\ IdleConfig /\ IdleWatch /\ IdleMain /\ IdleKbd

printFrame == <<entries, matchVars, configVars, watchVars, mainVars, kbdVars>>

\* connect_to_keyboard()?
PrintConnect ==
    /\ pc = <<"connect">>
    /\ \E dev \in {<<"api_err">>, <<"not_found">>, <<"open_failed">>, <<"write_ok", "report">>} :
          pc' = IF connect_to_keyboard(dev) = "ok" THEN <<"write", 1>>
                ELSE <<connect_to_keyboard(dev)>>
    /\ UNCHANGED <<printFrame, printVars>>

\* send_message, the write: the request reaches the device.
PrintWrite ==
    /\ pc[1] = "write"
    /\ handle' = [handle EXCEPT !.requests = Append(@, pc[2])]
    /\ pc' = <<"read", pc[2]>>
    /\ UNCHANGED <<printFrame, device, calls, stdout>>

\* send_message, the write fails: expect panics.
PrintWriteFails ==
    /\ pc[1] = "write"
    /\ pc' = <<"panic">>
    /\ UNCHANGED <<printFrame, printVars>>

\* The keyboard answers its oldest unanswered request; the report is queued
\* on the handle.
DeviceReplies ==
    /\ pc[1] \in {"write", "read"}
    /\ handle.requests # <<>>
    /\ handle' = [requests |-> Tail(handle.requests),
                  reports  |-> Append(handle.reports,
                                      [to |-> Head(handle.requests),
                                       buf |-> reply(Head(handle.requests), device)])]
    /\ UNCHANGED <<pc, printFrame, device, calls, stdout>>

\* Where print_keyboard_layer goes when send_message number n returned r.
after_call(n, r) ==
    IF IsErr(r) THEN <<"err">>
    ELSE IF n < Len(PrintOperations) THEN <<"write", n + 1>>
    ELSE <<"output">>

\* send_message, the read: read_timeout takes the oldest queued report, or
\* ends with no report after the timeout, or fails; the `?` of
\* print_keyboard_layer returns an Err.
PrintRead ==
    /\ pc[1] = "read"
    /\ \E outcome \in ReadOutcomes :
          /\ outcome = "report" => handle.reports # <<>>
          /\ outcome = "timeout" => handle.reports = <<>>
          /\ LET got == IF outcome = "report" THEN Some(Head(handle.reports)) ELSE None
                 buf == IF IsSome(got) THEN got[1].buf ELSE ZeroReport
                 r   == read_response(outcome, buf)
             IN  /\ handle' = IF IsSome(got) THEN [handle EXCEPT !.reports = Tail(@)]
                              ELSE handle
                 /\ calls' = Append(calls, [operation |-> PrintOperations[pc[2]],
                                            request |-> pc[2],
                                            answered |-> IF IsSome(got) THEN Some(got[1].to)
                                                         ELSE None,
                                            returned |-> r])
                 /\ pc' = after_call(pc[2], r)
    /\ UNCHANGED <<printFrame, device, stdout>>

\* "z " when the second response is JigglerStatus(true), then the name when
\* the first response is CurrentLayer; nothing is printed otherwise.
PrintOutput ==
    /\ pc = <<"output">>
    /\ LET response         == calls[1].returned[2]
           jiggler_response == calls[2].returned[2]
           jiggler_status   == IF jiggler_response = <<"JigglerStatus", TRUE>>
                               THEN <<122, 32>> ELSE <<>>
       IN  stdout' = IF response[1] = "CurrentLayer"
                     THEN <<jiggler_status \o response[3]>> ELSE <<>>
    /\ pc' = <<"ok">>
    /\ UNCHANGED <<printFrame, device, handle, calls>>

NextPrint ==
    \/ PrintConnect \/ PrintWrite \/ PrintWriteFails \/ DeviceReplies
    \/ PrintRead \/ PrintOutput
SpecPrint == InitPrint /\ [][NextPrint]_vars

\* C16: the response a send_message call returns is decoded from the
\* keyboard's reply to the request that call wrote, never from the reply to
\* an earlier request on the handle, also when an earlier read timed out
\* and the keyboard answered late.
C16_RequestResponsePairing ==
    \A i \in 1..Len(calls) :
        IsSome(calls[i].answered) => calls[i].answered[1] = calls[i].request

(***************************************************************************)
(* The focus steps a watch loop has taken, as the controller of section    *)
(* 4.4 sees them.                                                          *)
(***************************************************************************)
IsFocusEntry(e) == e.kind = "focus"
FocusLog == SelectSeq(log, IsFocusEntry)

\* The identity of a focus step: the joined class and title on hyprland, the
\* node name without its non-ASCII characters on i3, none for a nameless node.
Identity(e) ==
    IF e.window = None THEN None
    ELSE IF backend = "i3" THEN Some(ascii_only(e.window[1]))
    ELSE e.window

\* The rule the identity of a focus step matches, if any.
RuleOf(e) ==
    IF Identity(e) = None THEN None ELSE matches_window(entries, Identity(e)[1])

\* Focus step k ran to its end: the loop went on after it.
Completed(k) == k < Len(FocusLog) \/ status = "running"

\* C1: when the focus goes from a window matching rule R (to_layer t,
\* base_layer b) to a named window matching no rule and back to a window
\* matching R, the three steps issue ChangeLayer(t), ChangeLayer(b),
\* ChangeLayer(t) and nothing else, in both loops.
C1_ReEntry ==
    \A k \in 1..(Len(FocusLog) - 2) :
        LET r == RuleOf(FocusLog[k])
        IN  ( /\ Completed(k + 2)
              /\ IsSome(r)
              /\ IsSome(entries[r[1]].to_layer)
              /\ IsSome(entries[r[1]].base_layer)
              /\ IsSome(FocusLog[k + 1].window)
              /\ RuleOf(FocusLog[k + 1]) = None
              /\ RuleOf(FocusLog[k + 2]) = r )
            => /\ FocusLog[k].cmds = <<ChangeLayer(entries[r[1]].to_layer[1])>>
               /\ FocusLog[k + 1].cmds = <<ChangeLayer(entries[r[1]].base_layer[1])>>
               /\ FocusLog[k + 2].cmds = <<ChangeLayer(entries[r[1]].to_layer[1])>>

\* C2: when two consecutive focus events match the same rule R with
\* to_layer t, ChangeLayer(t) is issued for the first and no device command
\* for the second, in both loops.
C2_Idempotent ==
    \A k \in 1..(Len(FocusLog) - 1) :
        LET r == RuleOf(FocusLog[k])
        IN  ( /\ Completed(k + 1)
              /\ IsSome(r)
              /\ IsSome(entries[r[1]].to_layer)
              /\ RuleOf(FocusLog[k + 1]) = r )
            => /\ FocusLog[k].cmds = <<ChangeLayer(entries[r[1]].to_layer[1])>>
               /\ FocusLog[k + 1].cmds = <<>>

\* C3: when the preceding focus step matched rule R with base_layer b and
\* the current identity is absent or matches no rule, the step issues exactly
\* ChangeLayer(b) and the controller is unmatched afterwards, in both loops.
C3_ExitEdge ==
    \A k \in 1..(Len(FocusLog) - 1) :
        LET r == RuleOf(FocusLog[k])
        IN  ( /\ Completed(k + 1)
              /\ IsSome(r)
              /\ IsSome(entries[r[1]].base_layer)
              /\ RuleOf(FocusLog[k + 1]) = None )
            => /\ FocusLog[k + 1].cmds = <<ChangeLayer(entries[r[1]].base_layer[1])>>
               /\ (backend = "hyprland" /\ k + 1 = Len(FocusLog))
                     => last_matched_window = None

\* C4: when the current identity matches no rule and the preceding focus
\* step entered no rule (or there was none), the step issues no device
\* command and the controller stays unmatched, in both loops.
C4_NoActionUnmatched ==
    \A k \in 0..(Len(FocusLog) - 1) :
        ( /\ Completed(k + 1)
          /\ k > 0 => RuleOf(FocusLog[k]) = None
          /\ RuleOf(FocusLog[k + 1]) = None )
        => /\ FocusLog[k + 1].cmds = <<>>
           /\ (backend = "hyprland" /\ k + 1 = Len(FocusLog))
                 => last_matched_window = None

\* The rule a focus step leaves: the rule the preceding focus step matched,
\* when the step itself matches none.
ExitedRule(k) ==
    IF k > 1 /\ RuleOf(FocusLog[k]) = None THEN RuleOf(FocusLog[k - 1]) ELSE None

\* The layer the edge of focus step k asks for: to_layer of the rule it
\* enters, base_layer of the rule it leaves.
EdgeLayer(k) ==
    IF IsSome(RuleOf(FocusLog[k])) THEN entries[RuleOf(FocusLog[k])[1]].to_layer
    ELSE entries[ExitedRule(k)[1]].base_layer

\* Focus step k enters a rule or leaves one.
IsEdge(k) == IsSome(RuleOf(FocusLog[k])) \/ IsSome(ExitedRule(k))

\* The last consumed event was a focus event.
LastIsFocus == log # <<>> /\ log[Len(log)].kind = "focus"

\* C13: a focus step that enters a rule without to_layer, or leaves a rule
\* without base_layer, performs no device operation of any kind: the handle
\* is not opened, nothing is written or read, and a missing or failing
\* device cannot end the loop in that step.
C13_NoLayerNoDevice ==
    \A k \in 1..Len(FocusLog) :
        (IsEdge(k) /\ EdgeLayer(k) = None)
        => /\ ~FocusLog[k].opened
           /\ FocusLog[k].cmds = <<>>
           /\ (k = Len(FocusLog) /\ LastIsFocus) => hid = <<"untouched">>

\* What the loop did after a device failure: it was left, or it went on.
Policy(failure) == IF failure[2] = "running" THEN "continue" ELSE "abort"

\* C14: a device failure while a focus step issues ChangeLayer is handled by
\* one policy, the loop is always left or it always goes on, whether the
\* failure is in obtaining the handle, in the write or in the read.
C14_UniformFailurePolicy ==
    \A f, g \in failure_policy : Policy(f) = Policy(g)

\* C17: a hyprland line whose event name is activewindow and whose payload
\* has no comma fails to decode, and the error is returned by
\* watch_hyprland_focus: the session does not end with Ok.
C17_MalformedLineIsError ==
    \A k \in 1..Len(log) :
        ( /\ log[k].kind = "decode_error"
          /\ \E payload \in {StrAb, StrC, StrX} :
                log[k].line = Some(StrActiveWindow \o <<62, 62>> \o payload) )
        => status = "err"

\* C18: once a shutdown event was received the i3 loop has ended and the
\* subscription returned Ok; no focus event after it is given to the
\* callback.
C18_ShutdownEndsLoop ==
    \A j \in 1..Len(log) :
        log[j].kind = "shutdown"
        => /\ status = "ok"
           /\ \A k \in (j + 1)..Len(log) : log[k].kind # "focus"

\* C19: on i3 the callback of the k-th focus event is handed the (k-1)-th
\* focus event as the previous one and none for the first; window events
\* with another change run no callback and leave the remembered event as it
\* was.
C19_PreviousThreading ==
    backend = "i3" =>
        /\ \A k \in 1..Len(FocusLog) :
              FocusLog[k].prev = IF k = 1 THEN None
                                 ELSE Some([name |-> FocusLog[k - 1].window])
        /\ \A k \in 1..Len(log) :
              log[k].kind = "window_other"
              => log[k].prev = None /\ ~log[k].opened /\ log[k].cmds = <<>>
        /\ status = "running"
              => previous_ev = IF FocusLog = <<>> THEN None
                               ELSE Some([name |-> FocusLog[Len(FocusLog)].window])

C19_Witness ==
    /\ backend = "i3"
    /\ status = "running"
    /\ Len(log) = 3
    /\ log[1].kind = "focus" /\ log[1].window = Some(StrAb) /\ log[1].prev = None
    /\ log[2].kind = "window_other"
    /\ log[3].kind = "focus" /\ log[3].window = Some(StrX)
    /\ log[3].prev = Some([name |-> Some(StrAb)])
    /\ previous_ev = Some([name |-> Some(StrX)])

\* C20: a watch loop that was entered returns only because its event source
\* ended or yielded an error; no outcome of a device command in a focus step
\* makes it return, and when the source ends it returns Ok.
C20_StopsOnlyWithSource ==
    (pc = "watch" /\ status \in {"ok", "err", "panic"})
    => hid[1] \notin {"api_err", "not_found", "open_failed", "write_failed"}

\* C21: in the hyprland loop last_matched_window is None before any
\* ActiveWindow event and, while the loop lives, it is Some(R) exactly when
\* the name "{class} - {title}" of the most recent ActiveWindow event is
\* matched by matches_window to R, and None when that name matches no rule;
\* events of any other name leave it as it was and send nothing to the
\* device.
C21_LastMatchedWindow ==
    (backend = "hyprland" /\ status \in {"connecting", "running", "ok"}) =>
        /\ last_matched_window =
              IF FocusLog = <<>> THEN None ELSE RuleOf(FocusLog[Len(FocusLog)])
        /\ \A k \in 1..Len(log) :
              log[k].kind = "nothing" => ~log[k].opened /\ log[k].cmds = <<>>

C21_Witness ==
    /\ backend = "hyprland"
    /\ status = "running"
    /\ entries = <<RuleC, RuleAb>>
    /\ Len(log) = 3
    /\ log[1].kind = "focus" /\ log[1].window = Some(hyprland_name(StrAb, StrC))
    /\ log[1].cmds = <<>>
    /\ log[2].kind = "nothing"
    /\ log[3].kind = "focus" /\ log[3].window = Some(hyprland_name(StrAb, <<>>))
    /\ log[3].cmds = <<ChangeLayer(2)>>
    /\ last_matched_window = Some(2)

\* C22: in both loops a ChangeLayer sent because the focus left a matched
\* window carries the base_layer of the rule the preceding focus identity
\* matched (the rule that was entered, also after a direct move from one
\* rule to another), never that of another rule.
C22_ExitPairsWithEntry ==
    \A k \in 1..Len(FocusLog) :
        (Completed(k) /\ RuleOf(FocusLog[k]) = None /\ FocusLog[k].cmds # <<>>)
        => /\ k > 1
           /\ IsSome(RuleOf(FocusLog[k - 1]))
           /\ FocusLog[k].cmds =
                 <<ChangeLayer(entries[RuleOf(FocusLog[k - 1])[1]].base_layer[1])>>

====
